---- MODULE Spec2Model ----
(***************************************************************************)
(* A model of sshcode (src/sshcode.go): the session run by sshCode, the    *)
(* port allocator randomPort, the bind address parser parseBindAddr and    *)
(* the host resolver parseHost / parseGCPSSHCmd.                           *)
(*                                                                         *)
(* Go strings are TLA+ strings; the functions of package strings and net   *)
(* that the program calls are operators computed character by character.   *)
(***************************************************************************)
EXTENDS Integers, Sequences, FiniteSets, TLC

(***************************************************************************)
(* Program constants.                                                      *)
(***************************************************************************)
minPort == 1024
maxPort == 65535
maxTries == 10
\* context.WithTimeout(..., 15*time.Second) and http.Client{Timeout: 3s}.
ProbeDeadline == 15
AttemptTimeout == 3

(***************************************************************************)
(* Bounds of the model.                                                    *)
(***************************************************************************)
\* How many times other processes bind or release a port during allocation.
MaxEnvChanges == 1
\* How many interrupts the operating system delivers to the process.
MaxInterrupts == 2

(***************************************************************************)
(* package strings                                                         *)
(***************************************************************************)
Char(s, i) == SubSeq(s, i, i)

\* unicode.IsSpace for the characters that occur in the inputs.
IsSpace(c) == c \in {" ", "\t", "\n", "\r"}

RECURSIVE TrimLeft(_)
TrimLeft(s) ==
    IF Len(s) > 0 /\ IsSpace(Char(s, 1)) THEN TrimLeft(SubSeq(s, 2, Len(s))) ELSE s

RECURSIVE TrimRight(_)
TrimRight(s) ==
    IF Len(s) > 0 /\ IsSpace(Char(s, Len(s)))
    THEN TrimRight(SubSeq(s, 1, Len(s) - 1))
    ELSE s

\* strings.TrimSpace
TrimSpace(s) == TrimRight(TrimLeft(s))

\* strings.HasPrefix
HasPrefix(s, p) == Len(s) >= Len(p) /\ SubSeq(s, 1, Len(p)) = p

\* strings.TrimPrefix
TrimPrefix(s, p) == IF HasPrefix(s, p) THEN SubSeq(s, Len(p) + 1, Len(s)) ELSE s

\* strings.Index for a one-character separator; 0 when absent (Go: -1).
Index(s, c) ==
    IF \E i \in 1..Len(s) : Char(s, i) = c
    THEN CHOOSE i \in 1..Len(s) :
            /\ Char(s, i) = c
            /\ \A j \in 1..(i - 1) : Char(s, j) # c
    ELSE 0

\* strings.LastIndex for a one-character separator; 0 when absent.
LastIndex(s, c) ==
    IF \E i \in 1..Len(s) : Char(s, i) = c
    THEN CHOOSE i \in 1..Len(s) :
            /\ Char(s, i) = c
            /\ \A j \in (i + 1)..Len(s) : Char(s, j) # c
    ELSE 0

\* strings.Split(s, c) for a one-character separator: always at least one
\* element, empty elements are kept.
RECURSIVE Split(_, _)
Split(s, c) ==
    LET i == Index(s, c)
    IN  IF i = 0
        THEN <<s>>
        ELSE <<SubSeq(s, 1, i - 1)>> \o Split(SubSeq(s, i + 1, Len(s)), c)

\* strings.Join
RECURSIVE Join(_, _)
Join(elems, sep) ==
    IF Len(elems) = 0 THEN ""
    ELSE IF Len(elems) = 1 THEN elems[1]
    ELSE elems[1] \o sep \o Join(Tail(elems), sep)

(***************************************************************************)
(* package strconv                                                         *)
(***************************************************************************)
Digit(d) == Char("0123456789", d + 1)

\* strconv.Itoa for a non-negative integer.
RECURSIVE Itoa(_)
Itoa(n) == IF n < 10 THEN Digit(n) ELSE Itoa(n \div 10) \o Digit(n % 10)

IsDigit(c) == c \in {"0", "1", "2", "3", "4", "5", "6", "7", "8", "9"}

IsHexDigit(c) ==
    \/ IsDigit(c)
    \/ c \in {"a", "b", "c", "d", "e", "f", "A", "B", "C", "D", "E", "F"}

DigitValue(c) == CHOOSE d \in 0..9 : Digit(d) = c

\* The value of a string of decimal digits.
RECURSIVE Atoi(_)
Atoi(s) ==
    IF Len(s) = 0 THEN 0
    ELSE 10 * Atoi(SubSeq(s, 1, Len(s) - 1)) + DigitValue(Char(s, Len(s)))

(***************************************************************************)
(* package net                                                             *)
(***************************************************************************)
\* One decimal field of a dotted IPv4 address: 1 to 3 digits, at most 255,
\* no leading zero.
IsIPv4Field(f) ==
    /\ Len(f) \in 1..3
    /\ \A i \in 1..Len(f) : IsDigit(Char(f, i))
    /\ (Len(f) > 1 => Char(f, 1) # "0")
    /\ Atoi(f) <= 255

IsIPv4(s) ==
    LET fs == Split(s, ".")
    IN  Len(fs) = 4 /\ \A i \in 1..4 : IsIPv4Field(fs[i])

IsIPv6Group(g) == Len(g) \in 1..4 /\ \A i \in 1..Len(g) : IsHexDigit(Char(g, i))

\* A colon-separated IPv6 address: groups of 1 to 4 hex digits, at most one
\* "::", and possibly a dotted IPv4 address as the last group.
IsIPv6(s) ==
    LET gs0 == Split(s, ":")
        n0  == Len(gs0)
        lead == n0 >= 3 /\ gs0[1] = "" /\ gs0[2] = ""
        gs1 == IF lead THEN Tail(gs0) ELSE gs0
        n1  == Len(gs1)
        trail == n1 >= 2 /\ gs1[n1] = "" /\ gs1[n1 - 1] = ""
        gs  == IF trail THEN SubSeq(gs1, 1, n1 - 1) ELSE gs1
        n   == Len(gs)
        gaps == {i \in 1..n : gs[i] = ""}
        v4  == n >= 1 /\ IsIPv4(gs[n])
        groups == (n - Cardinality(gaps)) + (IF v4 THEN 1 ELSE 0)
    IN  /\ n0 >= 3
        /\ Cardinality(gaps) <= 1
        /\ \A i \in 1..n :
              \/ gs[i] = ""
              \/ IsIPv6Group(gs[i])
              \/ (i = n /\ v4)
        /\ IF gaps = {} THEN groups = 8 ELSE groups <= 7

\* net.ParseIP(s) # nil
ParseIP(s) == IsIPv4(s) \/ IsIPv6(s)

\* net.SplitHostPort
SplitHostPort(hostport) ==
    LET i    == LastIndex(hostport, ":")
        end  == Index(hostport, "]")
        brk  == Char(hostport, 1) = "["
        host == IF brk THEN SubSeq(hostport, 2, end - 1)
                       ELSE SubSeq(hostport, 1, i - 1)
        restJ == IF brk THEN SubSeq(hostport, 2, Len(hostport)) ELSE hostport
        restK == IF brk THEN SubSeq(hostport, end + 1, Len(hostport)) ELSE hostport
        bad  == [host |-> "", port |-> "", err |-> TRUE]
    IN  IF i = 0 THEN bad
        ELSE IF brk /\ (end = 0 \/ end + 1 # i) THEN bad
        ELSE IF ~brk /\ Index(host, ":") # 0 THEN bad
        ELSE IF Index(restJ, "[") # 0 THEN bad
        ELSE IF Index(restK, "]") # 0 THEN bad
        ELSE [host |-> host,
              port |-> SubSeq(hostport, i + 1, Len(hostport)),
              err  |-> FALSE]

\* net.JoinHostPort
JoinHostPort(host, port) ==
    IF Index(host, ":") # 0 THEN "[" \o host \o "]:" \o port
    ELSE host \o ":" \o port

(***************************************************************************)
(* parseHost and parseGCPSSHCmd.  gc is what the command                   *)
(* `gcloud compute ssh --dry-run <instance>` does: its combined output and *)
(* whether it exited with an error.                                        *)
(***************************************************************************)
parseGCPSSHCmd(gc) ==
    LET toks   == Split(gc.out, " ")
        n      == Len(toks)
        userIP == toks[n]
        parts  == Split(userIP, "@")
        ip     == IF Len(parts) < 2 THEN TrimSpace(parts[1]) ELSE TrimSpace(parts[2])
        bad    == [host |-> "", flags |-> "", err |-> TRUE]
    IN  IF gc.err THEN bad
        ELSE IF n < 2 THEN bad
        ELSE IF ~ParseIP(ip) THEN bad
        ELSE [host |-> ip, flags |-> Join(SubSeq(toks, 2, n - 1), " "), err |-> FALSE]

parseHost(h, gc) ==
    LET t == TrimSpace(h)
    IN  IF HasPrefix(t, "gcp:") THEN parseGCPSSHCmd(gc)
        ELSE [host |-> t, flags |-> "", err |-> FALSE]

(***************************************************************************)
(* parseBindAddr.  rp is the result of the randomPort call that the        *)
(* function makes when the port is empty.                                  *)
(***************************************************************************)
\* A wrong reading of lines 171-173: the empty string is not replaced.
BindAddrAsIs(bindAddr) == bindAddr

\* Lines 171-173.
BindAddrOrColon(bindAddr) == IF bindAddr = "" THEN ":" ELSE bindAddr

\* Whether parseBindAddr gets as far as calling randomPort.
NeedsRandomPort(bindAddr) ==
    LET sp == SplitHostPort(BindAddrOrColon(bindAddr))
    IN  ~sp.err /\ sp.port = ""

parseBindAddr(bindAddr, rp) ==
    LET sp   == SplitHostPort(BindAddrOrColon(bindAddr))
        host == IF sp.host = "" THEN "127.0.0.1" ELSE sp.host
        port == IF sp.port = "" THEN rp.port ELSE sp.port
    IN  IF sp.err THEN [addr |-> "", err |-> TRUE]
        ELSE IF sp.port = "" /\ rp.err THEN [addr |-> "", err |-> TRUE]
        ELSE [addr |-> JoinHostPort(host, port), err |-> FALSE]

(***************************************************************************)
(* The state of one run of sshCode.                                        *)
(***************************************************************************)
VARIABLES
    input,        \* the arguments of sshCode and the answer gcloud would give
    o,            \* the options as sshCode holds them (it assigns sshFlags,
                  \* bindAddr and remotePort)
    host,         \* the local variable host, after parseHost
    pc,           \* the position of sshCode
    err,          \* the error sshCode returned, "" while there is none
    log,          \* the external actions sshCode has started, in order
    cmds,         \* the calls behind them, with their arguments and results
    rpI,          \* randomPort: the loop counter i
    rpListener,   \* randomPort: the port of the listener l it holds, 0 if none
    bound,        \* the TCP ports on which some listener is bound
    envChanges,   \* how many times other processes changed bound
    tunnel,       \* the ssh child process: "none", "running" or "exited"
    waiter,       \* the goroutine of line 137: "none", "waiting" or "done"
    ctxDone,      \* whether the context of line 131 has been cancelled
    elapsed,      \* seconds since the context of line 112 was created
    attemptStart, \* the value of elapsed when the current client.Get began
    registered,   \* whether signal.Notify(c, os.Interrupt) has been called
    sigPending,   \* an interrupt was delivered and not yet offered to c
    interrupts,   \* how many interrupts have been delivered
    observed,     \* the case of the select that fired, "none" before
    leaves        \* how many times the select statement has completed

vars == <<input, o, host, pc, err, log, cmds, rpI, rpListener, bound, envChanges,
          tunnel, waiter, ctxDone, elapsed, attemptStart, registered,
          sigPending, interrupts, observed, leaves>>

rpVars   == <<rpI, rpListener>>
envVars  == <<bound, envChanges>>
tunVars  == <<tunnel, waiter, ctxDone>>
timeVars == <<elapsed, attemptStart>>
sigVars  == <<registered, sigPending, interrupts>>
selVars  == <<observed, leaves>>

(***************************************************************************)
(* The inputs.                                                             *)
(***************************************************************************)
\* rand.Intn(n) returns a value of 0..n-1; the model draws the two ends.
Intn(n) == {0, n - 1}

\* The ports randomPort can pick.
Ports == {r + minPort : r \in Intn(maxPort - minPort + 1)}

NoGcloud == [err |-> FALSE, out |-> ""]

GcloudAnswers ==
    { [err |-> FALSE, out |-> "/usr/bin/ssh -i key.pem user@10.0.0.5"],
      [err |-> FALSE, out |-> "/usr/bin/ssh -t 10.0.0.5\n"],
      [err |-> FALSE, out |-> "ssh u@::1"],
      [err |-> FALSE, out |-> "ssh -t a@b@10.0.0.5"],
      [err |-> FALSE, out |-> "ssh -t u@10.0.0.5@10.0.0.6"],
      [err |-> FALSE, out |-> "ssh -t user@myhost"],
      [err |-> FALSE, out |-> "10.0.0.5"],
      [err |-> TRUE,  out |-> "ERROR: (gcloud.compute.ssh) not found"] }

HostArgs == {"myhost", " gcp:dev-1 "}

BindAddrs == {"", "0.0.0.0:8080", "localhost"}

\* More values of the flag --bind, for the runs that look at parseBindAddr.
MoreBindAddrs == {":8080", "localhost:", "[::1]:8080", "a:b:c", "[::1]"}

RemotePorts == {"", "9000"}

UserFlags == {"-p 2222"}

Options ==
    [skipSync : BOOLEAN, syncBack : BOOLEAN, noOpen : BOOLEAN,
     bindAddr : BindAddrs, remotePort : RemotePorts, sshFlags : UserFlags]

\* The argument dir of sshCode.
Dirs == {"~/proj"}

Inputs ==
    { i \in [host : HostArgs, dir : Dirs, gc : GcloudAnswers \cup {NoGcloud},
             o : Options] :
        (i.gc = NoGcloud) <=> ~HasPrefix(TrimSpace(i.host), "gcp:") }

\* The runs that look at parseBindAddr: one host, a given remote port.
BindInputs ==
    [host : {"myhost"}, dir : Dirs, gc : {NoGcloud},
     o : [skipSync : BOOLEAN, syncBack : BOOLEAN, noOpen : BOOLEAN,
          bindAddr : BindAddrs \cup MoreBindAddrs, remotePort : RemotePorts,
          sshFlags : UserFlags]]

InitFrom(I) ==
    /\ input \in I
    /\ o = input.o
    /\ host = input.host
    /\ pc = "parseHost"
    /\ err = ""
    /\ log = <<>>
    /\ cmds = <<>>
    /\ rpI = 0
    /\ rpListener = 0
    /\ bound \in SUBSET Ports
    /\ envChanges = 0
    /\ tunnel = "none"
    /\ waiter = "none"
    /\ ctxDone = FALSE
    /\ elapsed = 0
    /\ attemptStart = 0
    /\ registered = FALSE
    /\ sigPending = FALSE
    /\ interrupts = 0
    /\ observed = "none"
    /\ leaves = 0

Init == InitFrom(Inputs)

(***************************************************************************)
(* The entries of log.                                                     *)
(***************************************************************************)
EvResolve        == <<"parseHost">>
EvBootstrap      == <<"bootstrap">>
EvPushSettings   == <<"syncUserSettings", FALSE>>
EvPushExtensions == <<"syncExtensions", FALSE>>
EvStartTunnel    == <<"startTunnel">>
EvProbe          == <<"probe">>
EvOpen           == <<"openBrowser">>
EvRun            == <<"select">>
EvPullExtensions == <<"syncExtensions", TRUE>>
EvPullSettings   == <<"syncUserSettings", TRUE>>

(***************************************************************************)
(* The entries of cmds: the function that ran something outside sshCode,   *)
(* the flags and the host it was given, what it ran, and whether it        *)
(* returned without error.                                                 *)
(***************************************************************************)
codeServerPath == "~/.cache/sshcode/sshcode-server"

\* Line 419's caller, lines 397-399: the gcloud helper.
GcloudCall(h, gc) ==
    [fn    |-> "parseGCPSSHCmd",
     flags |-> "",
     host  |-> "",
     line  |-> "gcloud compute ssh --dry-run " \o TrimPrefix(TrimSpace(h), "gcp:"),
     ok    |-> ~gc.err]

\* Lines 59-65.
BootstrapCall(sshFlags, h, ok) ==
    [fn    |-> "bootstrap",
     flags |-> sshFlags,
     host  |-> h,
     line  |-> Join(<<"ssh", sshFlags, h, "/bin/bash">>, " "),
     ok    |-> ok]

\* What configDir() and extensionsDir() return on this machine.
localConfDir == "$configDir"

localExtensionsDir == "$extensionsDir"

remoteSettingsDir == "~/.local/share/code-server/User/"

remoteExtensionsDir == "~/.local/share/code-server/extensions/"

\* rsync, lines 316-342: the remote shell, then src and dest.
rsync(src, dest, sshFlags) ==
    Join(<<"rsync", "-e", "ssh " \o sshFlags, src, dest>>, " ")

\* syncUserSettings and syncExtensions differ in the two directories.
SyncCall(fn, local, remote, sshFlags, h, back, ok) ==
    LET there == h \o ":" \o remote
        here  == local \o "/"
    IN  [fn    |-> fn,
         back  |-> back,
         flags |-> sshFlags,
         host  |-> h,
         line  |-> IF back THEN rsync(there, here, sshFlags)
                           ELSE rsync(here, there, sshFlags),
         ok    |-> ok]

syncUserSettings(sshFlags, h, back, ok) ==
    SyncCall("syncUserSettings", localConfDir, remoteSettingsDir,
             sshFlags, h, back, ok)

syncExtensions(sshFlags, h, back, ok) ==
    SyncCall("syncExtensions", localExtensionsDir, remoteExtensionsDir,
             sshFlags, h, back, ok)

\* Lines 96-99.
TunnelCall(opts, h, dir, ok) ==
    [fn    |-> "startTunnel",
     flags |-> opts.sshFlags,
     host  |-> h,
     bind  |-> opts.bindAddr,
     rport |-> opts.remotePort,
     line  |-> "ssh -tt -q -L " \o opts.bindAddr \o ":localhost:"
               \o opts.remotePort \o " " \o opts.sshFlags \o " " \o h
               \o " 'cd " \o dir \o "; " \o codeServerPath
               \o " --host 127.0.0.1 --allow-http --no-auth --port="
               \o opts.remotePort \o "'",
     ok    |-> ok]

\* Line 111.
Url(bindAddr) == "http://" \o bindAddr

\* Lines 111, 123: the address that client.Get asks.
ProbeCall(bindAddr) ==
    [fn |-> "probe", url |-> Url(bindAddr), ok |-> TRUE]

\* Line 134.
OpenCall(bindAddr) ==
    [fn |-> "openBrowser", url |-> Url(bindAddr), ok |-> TRUE]

\* return xerrors.Errorf(msg, ...): sshCode ends with an error.
Fail(msg) ==
    /\ pc' = "failed"
    /\ err' = msg

Terminal == {"done", "failed"}

\* The positions at which sshCode is inside a call of randomPort: the one
\* made by parseBindAddr (line 185) and the one of line 50.
RpPcs == {"bindRandomPort", "remoteRandomPort"}

(***************************************************************************)
(* sshCode, lines 36-42: parseHost and the joining of the flags.           *)
(***************************************************************************)
\* A wrong line 41: the flags of the resolver are put after the user's.
JoinFlagsAppended(extraSSHFlags, sshFlags) ==
    IF extraSSHFlags # "" THEN Join(<<sshFlags, extraSSHFlags>>, " ") ELSE sshFlags

\* Lines 40-42.
JoinFlags(extraSSHFlags, sshFlags) ==
    IF extraSSHFlags # "" THEN Join(<<extraSSHFlags, sshFlags>>, " ") ELSE sshFlags

DoParseHost ==
    /\ pc = "parseHost"
    /\ log' = Append(log, EvResolve)
    /\ cmds' = IF HasPrefix(TrimSpace(host), "gcp:")
               THEN Append(cmds, GcloudCall(host, input.gc))
               ELSE cmds
    /\ LET r == parseHost(host, input.gc)
       IN  IF r.err
           THEN /\ Fail("failed to parse host IP")
                /\ UNCHANGED <<host, o>>
           ELSE /\ host' = r.host
                /\ o' = [o EXCEPT !.sshFlags = JoinFlags(r.flags, o.sshFlags)]
                /\ pc' = "parseBindAddr"
                /\ UNCHANGED err
    /\ UNCHANGED <<input, rpVars, envVars, tunVars, timeVars, sigVars, selVars>>

(***************************************************************************)
(* sshCode, lines 44-47: parseBindAddr, up to its call of randomPort.      *)
(***************************************************************************)
DoParseBindAddr ==
    /\ pc = "parseBindAddr"
    /\ IF NeedsRandomPort(o.bindAddr)
       THEN /\ pc' = "bindRandomPort"
            /\ UNCHANGED <<o, err>>
       ELSE LET r == parseBindAddr(o.bindAddr, [port |-> "", err |-> FALSE])
            IN  IF r.err
                THEN /\ Fail("failed to parse bind address")
                     /\ o' = [o EXCEPT !.bindAddr = r.addr]
                ELSE /\ o' = [o EXCEPT !.bindAddr = r.addr]
                     /\ pc' = "remotePort"
                     /\ UNCHANGED err
    /\ UNCHANGED <<input, host, log, cmds, rpVars, envVars, tunVars, timeVars,
                   sigVars, selVars>>

(***************************************************************************)
(* sshCode, lines 49-51: the remote port is allocated if none was given.   *)
(***************************************************************************)
\* A wrong reading of line 49: a port is allocated whatever was given.
NeedsRemotePortAlways(opts) == TRUE

\* Line 49.
NeedsRemotePort(opts) == opts.remotePort = ""

DoRemotePort ==
    /\ pc = "remotePort"
    /\ pc' = IF NeedsRemotePort(o) THEN "remoteRandomPort" ELSE "bootstrap"
    /\ UNCHANGED <<input, o, host, err, log, cmds, rpVars, envVars, tunVars,
                   timeVars, sigVars, selVars>>

(***************************************************************************)
(* randomPort, lines 247-264.                                              *)
(***************************************************************************)
\* A wrong argument of rand.Intn: minPort is not subtracted.
PortRangeNoMin == maxPort

\* The argument of rand.Intn in line 254.
PortRange == maxPort - minPort + 1

\* Line 254.
PickPort(r) == r + minPort

\* A wrong loop condition: one pass too many.
LoopCondInclusive(i) == i <= maxTries

\* Line 253: the loop condition.
LoopCond(i) == i < maxTries

\* net.Listen("tcp", ":port") succeeds when no listener is bound to the port.
ListenOk(port, b) == port \notin b

\* The caller's use of what randomPort returns: parseBindAddr (lines
\* 185-191, then 44-47 of sshCode) or lines 50-54 of sshCode.
RandomPortReturns(rp) ==
    IF pc = "bindRandomPort"
    THEN LET r == parseBindAddr(o.bindAddr, rp)
         IN  /\ o' = [o EXCEPT !.bindAddr = r.addr]
             /\ IF r.err
                THEN Fail("failed to parse bind address")
                ELSE pc' = "remotePort" /\ UNCHANGED err
    ELSE /\ o' = [o EXCEPT !.remotePort = rp.port]
         /\ IF rp.err
            THEN Fail("failed to find available remote port")
            ELSE pc' = "bootstrap" /\ UNCHANGED err

\* Lines 254-255 and 260: one pass of the loop up to the result of Listen.
RandomPortListen ==
    /\ pc \in RpPcs
    /\ rpListener = 0
    /\ LoopCond(rpI)
    /\ \E r \in Intn(PortRange) :
          LET port == PickPort(r)
          IN  IF ListenOk(port, bound)
              THEN /\ rpListener' = port
                   /\ bound' = bound \cup {port}
                   /\ UNCHANGED rpI
              ELSE /\ rpI' = rpI + 1
                   /\ UNCHANGED <<rpListener, bound>>
    /\ UNCHANGED <<input, o, host, pc, err, log, cmds, envChanges, tunVars,
                   timeVars, sigVars, selVars>>

\* Lines 256-259: the listener is closed and the port returned.
RandomPortClose ==
    /\ pc \in RpPcs
    /\ rpListener # 0
    /\ bound' = bound \ {rpListener}
    /\ rpListener' = 0
    /\ rpI' = 0
    /\ RandomPortReturns([port |-> Itoa(rpListener), err |-> FALSE])
    /\ UNCHANGED <<input, host, log, cmds, envChanges, tunVars, timeVars, sigVars,
                   selVars>>

\* Line 263: the loop has ended without a successful Listen.
RandomPortExhausted ==
    /\ pc \in RpPcs
    /\ rpListener = 0
    /\ ~LoopCond(rpI)
    /\ rpI' = 0
    /\ RandomPortReturns([port |-> "", err |-> TRUE])
    /\ UNCHANGED <<input, host, log, cmds, rpListener, envVars, tunVars, timeVars,
                   sigVars, selVars>>

(***************************************************************************)
(* Other processes bind and release ports while sshCode allocates its own. *)
(* sshCode reads bound only through net.Listen in randomPort.              *)
(***************************************************************************)
AllocPcs == {"parseBindAddr", "bindRandomPort", "remotePort", "remoteRandomPort"}

EnvBind ==
    /\ pc \in AllocPcs
    /\ envChanges < MaxEnvChanges
    /\ \E p \in Ports \ bound : bound' = bound \cup {p}
    /\ envChanges' = envChanges + 1
    /\ UNCHANGED <<input, o, host, pc, err, log, cmds, rpVars, tunVars, timeVars,
                   sigVars, selVars>>

EnvRelease ==
    /\ pc \in AllocPcs
    /\ envChanges < MaxEnvChanges
    /\ \E p \in bound \ {rpListener} : bound' = bound \ {p}
    /\ envChanges' = envChanges + 1
    /\ UNCHANGED <<input, o, host, pc, err, log, cmds, rpVars, tunVars, timeVars,
                   sigVars, selVars>>

(***************************************************************************)
(* sshCode, lines 56-72: the download script is run on the host.           *)
(***************************************************************************)
\* A wrong reading of line 74: the test of skipSync inverted.
SyncInInverted(opts) == opts.skipSync

\* Line 74.
SyncIn(opts) == ~opts.skipSync

DoBootstrap ==
    /\ pc = "bootstrap"
    /\ log' = Append(log, EvBootstrap)
    /\ \E ok \in BOOLEAN :
          /\ cmds' = Append(cmds, BootstrapCall(o.sshFlags, host, ok))
          /\ IF ok
             THEN /\ pc' = IF SyncIn(o) THEN "pushSettings" ELSE "startTunnel"
                  /\ UNCHANGED err
             ELSE Fail("failed to update code-server")
    /\ UNCHANGED <<input, o, host, rpVars, envVars, tunVars, timeVars,
                   sigVars, selVars>>

(***************************************************************************)
(* sshCode, lines 74-90: the settings, then the extensions, are pushed.    *)
(***************************************************************************)
\* A wrong line 78: the error of syncUserSettings is not looked at.
DoPushSettingsLenient ==
    /\ pc = "pushSettings"
    /\ log' = Append(log, EvPushSettings)
    /\ \E ok \in BOOLEAN :
          cmds' = Append(cmds, syncUserSettings(o.sshFlags, host, FALSE, ok))
    /\ pc' = "pushExtensions"
    /\ UNCHANGED <<input, o, host, err, rpVars, envVars, tunVars, timeVars,
                   sigVars, selVars>>

DoPushSettings ==
    /\ pc = "pushSettings"
    /\ log' = Append(log, EvPushSettings)
    /\ \E ok \in BOOLEAN :
          /\ cmds' = Append(cmds, syncUserSettings(o.sshFlags, host, FALSE, ok))
          /\ IF ok
             THEN pc' = "pushExtensions" /\ UNCHANGED err
             ELSE Fail("failed to sync settings")
    /\ UNCHANGED <<input, o, host, rpVars, envVars, tunVars, timeVars,
                   sigVars, selVars>>

DoPushExtensions ==
    /\ pc = "pushExtensions"
    /\ log' = Append(log, EvPushExtensions)
    /\ \E ok \in BOOLEAN :
          /\ cmds' = Append(cmds, syncExtensions(o.sshFlags, host, FALSE, ok))
          /\ IF ok
             THEN pc' = "startTunnel" /\ UNCHANGED err
             ELSE Fail("failed to sync extensions")
    /\ UNCHANGED <<input, o, host, rpVars, envVars, tunVars, timeVars,
                   sigVars, selVars>>

(***************************************************************************)
(* sshCode, lines 92-109: the ssh child process is started, not waited     *)
(* for.                                                                    *)
(***************************************************************************)
DoStartTunnel ==
    /\ pc = "startTunnel"
    /\ log' = Append(log, EvStartTunnel)
    /\ \E ok \in BOOLEAN :
          /\ cmds' = Append(cmds, TunnelCall(o, host, input.dir, ok))
          /\ IF ok
             THEN /\ tunnel' = "running"
                  /\ pc' = "probeStart"
                  /\ UNCHANGED err
             ELSE /\ Fail("failed to start code-server")
                  /\ UNCHANGED tunnel
    /\ UNCHANGED <<input, o, host, rpVars, envVars, waiter, ctxDone,
                   timeVars, sigVars, selVars>>

\* A wrong controller: the end of the child process ends the session
\* wherever sshCode is.
TunnelExitEndsSession ==
    /\ tunnel = "running"
    /\ pc \notin Terminal
    /\ tunnel' = "exited"
    /\ pc' = "done"
    /\ UNCHANGED <<input, o, host, err, log, cmds, rpVars, envVars, waiter,
                   ctxDone, timeVars, sigVars, selVars>>

\* The child process ends: the remote command exited or the connection
\* dropped.  The child is followed until sshCode returns.
TunnelExit ==
    /\ tunnel = "running"
    /\ pc \notin Terminal
    /\ tunnel' = "exited"
    /\ UNCHANGED <<input, o, host, pc, err, log, cmds, rpVars, envVars, waiter,
                   ctxDone, timeVars, sigVars, selVars>>

(***************************************************************************)
(* sshCode, lines 111-129: the probe.                                      *)
(***************************************************************************)
\* The latest value of elapsed at which sshCode can still be in the loop.
MaxElapsed == ProbeDeadline + AttemptTimeout

\* Lines 111-117: the context with the deadline and the client are made.
DoProbeStart ==
    /\ pc = "probeStart"
    /\ log' = Append(log, EvProbe)
    /\ cmds' = Append(cmds, ProbeCall(o.bindAddr))
    /\ elapsed' = 0
    /\ attemptStart' = 0
    /\ pc' = "probeCheck"
    /\ UNCHANGED <<input, o, host, err, rpVars, envVars, tunVars, sigVars,
                   selVars>>

\* ctx.Err() != nil, for the context of line 112.
DeadlineExceeded(t) == t >= ProbeDeadline

\* Lines 119-123: the check of the deadline, then client.Get begins.
DoProbeCheck ==
    /\ pc = "probeCheck"
    /\ IF DeadlineExceeded(elapsed)
       THEN /\ Fail("code-server didn't start in time")
            /\ UNCHANGED attemptStart
       ELSE /\ pc' = "probeGet"
            /\ attemptStart' = elapsed
            /\ UNCHANGED err
    /\ UNCHANGED <<input, o, host, log, cmds, rpVars, envVars, tunVars, elapsed,
                   sigVars, selVars>>

\* Lines 123, 127-128: client.Get returns a response before its own
\* timeout; the loop is left.
ProbeGetOk ==
    /\ pc = "probeGet"
    /\ elapsed - attemptStart < AttemptTimeout
    /\ pc' = "probed"
    /\ attemptStart' = 0
    /\ UNCHANGED <<input, o, host, err, log, cmds, rpVars, envVars, tunVars,
                   elapsed, sigVars, selVars>>

\* Lines 123-125: client.Get returns an error (the connection is refused,
\* or the timeout of the client has passed); the loop continues.
ProbeGetErr ==
    /\ pc = "probeGet"
    /\ pc' = "probeCheck"
    /\ attemptStart' = 0
    /\ UNCHANGED <<input, o, host, err, log, cmds, rpVars, envVars, tunVars,
                   elapsed, sigVars, selVars>>

\* A second passes while sshCode is in the loop.  A client.Get does not
\* last longer than the timeout of the client.
Tick ==
    /\ pc \in {"probeCheck", "probeGet"}
    /\ elapsed < MaxElapsed
    /\ pc = "probeGet" => elapsed - attemptStart < AttemptTimeout
    /\ elapsed' = elapsed + 1
    /\ UNCHANGED <<input, o, host, pc, err, log, cmds, rpVars, envVars, tunVars,
                   attemptStart, sigVars, selVars>>

(***************************************************************************)
(* sshCode, lines 131-148: Running.                                        *)
(***************************************************************************)
\* A wrong reading of line 133: the browser is opened whatever noOpen says.
ShouldOpenAlways(opts) == TRUE

\* Line 133.
ShouldOpen(opts) == ~opts.noOpen

\* Lines 131-135: ctx is replaced by a context without deadline, and the
\* browser is opened unless noOpen.
DoOpen ==
    /\ pc = "probed"
    /\ ctxDone' = FALSE
    /\ elapsed' = 0
    /\ log' = IF ShouldOpen(o) THEN Append(log, EvOpen) ELSE log
    /\ cmds' = IF ShouldOpen(o) THEN Append(cmds, OpenCall(o.bindAddr)) ELSE cmds
    /\ pc' = "goWait"
    /\ UNCHANGED <<input, o, host, err, rpVars, envVars, tunnel, waiter,
                   attemptStart, sigVars, selVars>>

\* Lines 137-140: the goroutine that waits for the child process starts.
DoGoWait ==
    /\ pc = "goWait"
    /\ waiter' = "waiting"
    /\ pc' = "notify"
    /\ UNCHANGED <<input, o, host, err, log, cmds, rpVars, envVars, tunnel,
                   ctxDone, timeVars, sigVars, selVars>>

\* Lines 142-143: c := make(chan os.Signal); signal.Notify(c, os.Interrupt).
DoNotify ==
    /\ pc = "notify"
    /\ registered' = TRUE
    /\ pc' = "select"
    /\ UNCHANGED <<input, o, host, err, log, cmds, rpVars, envVars, tunVars,
                   timeVars, sigPending, interrupts, selVars>>

\* Wrong tests in line 150: skipSync is not looked at; syncBack is not
\* looked at.
SyncBackSkippedIgnoringSkip(opts) == ~opts.syncBack

SyncBackSkippedIgnoringBack(opts) == opts.skipSync

\* Line 150.
SyncBackSkipped(opts) == ~opts.syncBack \/ opts.skipSync

\* A wrong ending of Running: an interrupt shuts down without sync-back.
LeaveRunningBySignal(sig) ==
    /\ observed' = sig
    /\ leaves' = leaves + 1
    /\ pc' = IF SyncBackSkipped(o) \/ sig = "UserInterrupted"
             THEN "done"
             ELSE "pullExtensions"

\* The select of lines 145-148 completes with the case sig, and line 150
\* decides what follows.
LeaveRunning(sig) ==
    /\ observed' = sig
    /\ leaves' = leaves + 1
    /\ pc' = IF SyncBackSkipped(o) THEN "done" ELSE "pullExtensions"

\* Line 145: the select is evaluated.  c has no buffer, so it is never
\* ready at this point; ctx.Done() is ready if the context is cancelled.
\* Otherwise the controller blocks on both channels.
DoSelect ==
    /\ pc = "select"
    /\ log' = Append(log, EvRun)
    /\ UNCHANGED cmds
    /\ IF ctxDone
       THEN LeaveRunning("TunnelEnded")
       ELSE pc' = "parked" /\ UNCHANGED selVars
    /\ UNCHANGED <<input, o, host, err, rpVars, envVars, tunVars, timeVars,
                   sigVars>>

\* A wrong goroutine: it ends when sshCmd.Wait() returns, without cancel().
WaiterNoCancel ==
    /\ waiter = "waiting"
    /\ tunnel = "exited"
    /\ pc \notin Terminal
    /\ waiter' = "done"
    /\ UNCHANGED <<input, o, host, pc, err, log, cmds, rpVars, envVars, tunnel,
                   ctxDone, timeVars, sigVars, selVars>>

\* Lines 138-139: sshCmd.Wait() has returned, the deferred cancel() runs.
\* Closing ctx.Done() wakes the controller if it is blocked in the select.
WaiterCancel ==
    /\ waiter = "waiting"
    /\ tunnel = "exited"
    /\ pc \notin Terminal
    /\ waiter' = "done"
    /\ ctxDone' = TRUE
    /\ IF pc = "parked"
       THEN LeaveRunning("TunnelEnded")
       ELSE UNCHANGED <<pc, selVars>>
    /\ UNCHANGED <<input, o, host, err, log, cmds, rpVars, envVars, tunnel,
                   timeVars, sigVars>>

\* The operating system delivers an interrupt to the process after
\* signal.Notify: package signal will offer it to c.  (Before signal.Notify
\* an interrupt is not handled by sshCode at all.)
Interrupt ==
    /\ registered
    /\ pc \notin Terminal
    /\ interrupts < MaxInterrupts
    /\ sigPending' = TRUE
    /\ interrupts' = interrupts + 1
    /\ UNCHANGED <<input, o, host, pc, err, log, cmds, rpVars, envVars, tunVars,
                   timeVars, registered, selVars>>

\* A wrong delivery: the interrupt acts on sshCode wherever it is.
SendAlwaysSucceeds(p) == TRUE

\* Package signal sends without blocking.  c was made without a buffer
\* (line 142), so the send succeeds only if the controller is blocked in
\* the select; otherwise the signal is dropped.
SendSucceeds(p) == p = "parked"


SignalSend ==
    /\ sigPending
    /\ pc \notin Terminal
    /\ sigPending' = FALSE
    /\ IF SendSucceeds(pc)
       THEN LeaveRunning("UserInterrupted")
       ELSE UNCHANGED <<pc, selVars>>
    /\ UNCHANGED <<input, o, host, err, log, cmds, rpVars, envVars, tunVars,
                   timeVars, registered, interrupts>>

(***************************************************************************)
(* sshCode, lines 155-167: the extensions, then the settings, are pulled.  *)
(***************************************************************************)
DoPullExtensions ==
    /\ pc = "pullExtensions"
    /\ log' = Append(log, EvPullExtensions)
    /\ \E ok \in BOOLEAN :
          /\ cmds' = Append(cmds, syncExtensions(o.sshFlags, host, TRUE, ok))
          /\ IF ok
             THEN pc' = "pullSettings" /\ UNCHANGED err
             ELSE Fail("failed to sync extensions back")
    /\ UNCHANGED <<input, o, host, rpVars, envVars, tunVars, timeVars,
                   sigVars, selVars>>

DoPullSettings ==
    /\ pc = "pullSettings"
    /\ log' = Append(log, EvPullSettings)
    /\ \E ok \in BOOLEAN :
          /\ cmds' = Append(cmds, syncUserSettings(o.sshFlags, host, TRUE, ok))
          /\ IF ok
             THEN pc' = "done" /\ UNCHANGED err
             ELSE Fail("failed to sync user settings settings back")
    /\ UNCHANGED <<input, o, host, rpVars, envVars, tunVars, timeVars,
                   sigVars, selVars>>

(***************************************************************************)
(* The specification.                                                      *)
(***************************************************************************)
Next ==
    \/ DoParseHost
    \/ DoParseBindAddr
    \/ DoRemotePort
    \/ RandomPortListen
    \/ RandomPortClose
    \/ RandomPortExhausted
    \/ EnvBind
    \/ EnvRelease
    \/ DoBootstrap
    \/ DoPushSettings
    \/ DoPushExtensions
    \/ DoStartTunnel
    \/ TunnelExit
    \/ DoProbeStart
    \/ DoProbeCheck
    \/ ProbeGetOk
    \/ ProbeGetErr
    \/ Tick
    \/ DoOpen
    \/ DoGoWait
    \/ DoNotify
    \/ DoSelect
    \/ WaiterCancel
    \/ Interrupt
    \/ SignalSend
    \/ DoPullExtensions
    \/ DoPullSettings

Spec == Init /\ [][Next]_vars

(***************************************************************************)
(* The scheduling of the program: a step of sshCode, of the goroutine or   *)
(* of package signal that can be taken is eventually taken, and time       *)
(* passes.  Nothing obliges the child process to exit or the operating     *)
(* system to deliver an interrupt.                                         *)
(***************************************************************************)
Controller ==
    \/ DoParseHost
    \/ DoParseBindAddr
    \/ DoRemotePort
    \/ RandomPortListen
    \/ RandomPortClose
    \/ RandomPortExhausted
    \/ DoBootstrap
    \/ DoPushSettings
    \/ DoPushExtensions
    \/ DoStartTunnel
    \/ DoProbeStart
    \/ DoProbeCheck
    \/ ProbeGetOk
    \/ ProbeGetErr
    \/ DoOpen
    \/ DoGoWait
    \/ DoNotify
    \/ DoSelect
    \/ DoPullExtensions
    \/ DoPullSettings

Fairness ==
    /\ WF_vars(Controller)
    /\ WF_vars(WaiterCancel)
    /\ WF_vars(SignalSend)
    /\ WF_vars(Tick)

\* The behaviours checked for progress start from the plain host, with both
\* ports left to randomPort and every combination of the flags.
FairInit ==
    /\ Init
    /\ input.host = "myhost"
    /\ input.o.bindAddr = ""
    /\ input.o.remotePort = ""

\* The same program, started with the wider choice of bind addresses.
BindSpec == InitFrom(BindInputs) /\ [][Next]_vars

FairSpec == FairInit /\ [][Next]_vars /\ Fairness

(***************************************************************************)
(* The states of the session controller, by position of sshCode.           *)
(***************************************************************************)
State(p) ==
    CASE p \in {"parseHost", "parseBindAddr", "bindRandomPort", "remotePort",
                "remoteRandomPort"}                -> "Resolving"
      [] p = "bootstrap"                           -> "Bootstrapping"
      [] p \in {"pushSettings", "pushExtensions"}  -> "SyncingIn"
      [] p = "startTunnel"                         -> "TunnelStarting"
      [] p \in {"probeStart", "probeCheck", "probeGet", "probed"} -> "Probing"
      [] p \in {"goWait", "notify", "select", "parked"} -> "Running"
      [] p \in {"pullExtensions", "pullSettings"}  -> "SyncingBack"
      [] p = "done"                                -> "Done"
      [] p = "failed"                              -> "Failed"

IsPrefix(s, t) == Len(s) <= Len(t) /\ SubSeq(t, 1, Len(s)) = s

IsSync(e) == e[1] \in {"syncUserSettings", "syncExtensions"}

IsPull(e) == IsSync(e) /\ e[2]

\* The entries of log after the select was entered.
AfterRun(l) ==
    IF \E i \in 1..Len(l) : l[i] = EvRun
    THEN SubSeq(l, (CHOOSE i \in 1..Len(l) : l[i] = EvRun) + 1, Len(l))
    ELSE <<>>

(***************************************************************************)
(* C1.  With skipSync=false, syncBack=true and no remote port given, the   *)
(* external actions of a session in which every stage succeeds are, in     *)
(* this order and each once: resolve, bootstrap, push settings, push       *)
(* extensions, start tunnel, probe, open browser, select, pull extensions, *)
(* pull settings; at any moment the actions started so far are a prefix of *)
(* that order.                                                             *)
(*   C1_Order is the claim as stated: it fails when noOpen is set, for     *)
(* then the browser is not opened.  C1_OrderUnlessNoOpen is the claim for  *)
(* the sessions in which opening is not suppressed.                        *)
(***************************************************************************)
ExpectedOrder ==
    <<EvResolve, EvBootstrap, EvPushSettings, EvPushExtensions, EvStartTunnel,
      EvProbe, EvOpen, EvRun, EvPullExtensions, EvPullSettings>>

C1_Case ==
    /\ ~input.o.skipSync
    /\ input.o.syncBack
    /\ input.o.remotePort = ""

InExpectedOrder ==
    /\ IsPrefix(log, ExpectedOrder)
    /\ pc = "done" => log = ExpectedOrder

\* C1 as stated: in every session of the case the actions are in the
\* expected order.
C1_Order == C1_Case => InExpectedOrder

\* C1, amended: the same for the sessions of the case with noOpen unset.
C1_OrderUnlessNoOpen == (C1_Case /\ ~input.o.noOpen) => InExpectedOrder

C1_Witness ==
    /\ C1_Case
    /\ ~input.o.noOpen
    /\ pc = "done"
    /\ log = ExpectedOrder

(***************************************************************************)
(* C2.  With skipSync set, no sync call is ever made, whatever syncBack    *)
(* is and whichever signal ended Running.                                  *)
(***************************************************************************)
\* C2: with skipSync set the log never holds a sync call.
C2_SkipSyncNeverSyncs ==
    input.o.skipSync => \A i \in 1..Len(log) : ~IsSync(log[i])

C2_Witness ==
    /\ input.o.skipSync
    /\ input.o.syncBack
    /\ observed = "UserInterrupted"
    /\ pc = "done"

(***************************************************************************)
(* C3.  With syncBack unset, no pull-direction sync call is ever made, and *)
(* once the select has completed the session is Done.                      *)
(***************************************************************************)
\* C3: with syncBack unset the log never holds a pull, and the session is
\* Done as soon as the select has completed.
C3_NoSyncBackNeverPulls ==
    ~input.o.syncBack =>
        /\ \A i \in 1..Len(log) : ~IsPull(log[i])
        /\ observed # "none" => State(pc) = "Done"

C3_Witness ==
    /\ ~input.o.syncBack
    /\ ~input.o.skipSync
    /\ observed = "TunnelEnded"
    /\ pc = "done"

(***************************************************************************)
(* C4.  The state entered when Running ends, and the sync calls made after *)
(* it, are determined by the option flags alone: SyncingBack with pull     *)
(* extensions then pull settings if syncBack and not skipSync, Done with   *)
(* no call otherwise, whether the tunnel's exit or an interrupt ended      *)
(* Running.                                                                *)
(***************************************************************************)
StateAfterRunning(opts) ==
    IF opts.syncBack /\ ~opts.skipSync THEN "SyncingBack" ELSE "Done"

CallsAfterRunning(opts) ==
    IF opts.syncBack /\ ~opts.skipSync
    THEN <<EvPullExtensions, EvPullSettings>>
    ELSE <<>>

\* C4: the step that completes the select enters StateAfterRunning of the
\* flags, and the calls after the select are those of CallsAfterRunning.
C4_SameAfterEitherSignal ==
    /\ [][leaves' # leaves => State(pc') = StateAfterRunning(input.o)]_vars
    /\ [](/\ IsPrefix(AfterRun(log), CallsAfterRunning(input.o))
          /\ (observed # "none" /\ pc = "done")
                => AfterRun(log) = CallsAfterRunning(input.o))

C4_Witness ==
    /\ observed = "UserInterrupted"
    /\ input.o.syncBack
    /\ ~input.o.skipSync
    /\ pc = "done"
    /\ AfterRun(log) = <<EvPullExtensions, EvPullSettings>>

(***************************************************************************)
(* C5.  The select completes at most once, with exactly one of the two     *)
(* signals, under every interleaving of the goroutine, the delivery of     *)
(* interrupts and sshCode; what was observed never changes, and once the   *)
(* select has completed a step of the goroutine or of package signal       *)
(* changes nothing of sshCode.                                             *)
(***************************************************************************)
ctrlVars == <<pc, err, log, o, host, observed, leaves>>

\* C5: one completion of the select, one signal observed, for good, and no
\* effect of the losing watcher on sshCode.
C5_OneWinner ==
    /\ [](/\ leaves \in {0, 1}
          /\ leaves = 0 <=> observed = "none"
          /\ leaves = 1 <=> observed \in {"TunnelEnded", "UserInterrupted"}
          /\ State(pc) \in {"SyncingBack", "Done"} => leaves = 1
          /\ leaves = 1 => State(pc) \in {"SyncingBack", "Done", "Failed"})
    /\ [][observed # "none" => observed' = observed]_vars
    /\ [][(leaves = 1 /\ (waiter' # waiter \/ sigPending' # sigPending))
            => UNCHANGED ctrlVars]_vars

\* The interrupt won, and the goroutine cancelled the context afterwards.
C5_Witness ==
    /\ leaves = 1
    /\ observed = "UserInterrupted"
    /\ waiter = "done"
    /\ ctxDone
    /\ State(pc) = "SyncingBack"

(***************************************************************************)
(* C6.  An interrupt delivered while the controller is in Running, after   *)
(* signal.Notify, leads to the controller leaving Running.                 *)
(***************************************************************************)
\* C6: an interrupt pending in Running leads to Running being left.
C6_InterruptEndsRunning ==
    (State(pc) = "Running" /\ registered /\ sigPending)
        ~> (State(pc) # "Running")

(***************************************************************************)
(* C7.  The probe reports ready only on a response received before the     *)
(* deadline of 15 s has elapsed.                                           *)
(***************************************************************************)
\* C7: the loop is left on a response only while the deadline has not
\* elapsed.
C7_ReadyBeforeDeadline == pc = "probed" => elapsed < ProbeDeadline

(***************************************************************************)
(* C8.  randomPort binds, and so returns, only a port of [1024, 65535]     *)
(* that no listener was bound to when net.Listen checked it, also when the *)
(* port of an earlier allocation has been bound since.                     *)
(***************************************************************************)
\* The step in which randomPort returns to its caller.
RandomPortReturn == pc \in RpPcs /\ pc' \notin RpPcs

\* The port in the value that the caller stored.
ReturnedTo(p, opts) ==
    IF p = "bindRandomPort"
    THEN SplitHostPort(opts.bindAddr).port
    ELSE opts.remotePort

\* C8: a successful Listen is on an unbound port of the range, and the
\* caller receives that port.
C8_PortInRangeAndFree ==
    /\ [][(rpListener = 0 /\ rpListener' # 0)
            => /\ rpListener' \in minPort..maxPort
               /\ rpListener' \notin bound]_vars
    /\ [][(RandomPortReturn /\ pc' # "failed")
            => /\ rpListener \in minPort..maxPort
               /\ ReturnedTo(pc, o') = Itoa(rpListener)]_vars

\* The second allocation, made while the port of the first is bound: it
\* was refused that port and holds the other one.
C8_Witness ==
    /\ pc = "remoteRandomPort"
    /\ o.bindAddr = "127.0.0.1:1024"
    /\ 1024 \in bound
    /\ rpI > 0
    /\ rpListener = 65535

(***************************************************************************)
(* C9.  randomPort calls net.Listen at most 10 times; a failed Listen      *)
(* before the tenth does not end the call; the first successful Listen     *)
(* ends it, with that port returned and the listener closed; it returns    *)
(* an error exactly when 10 calls of Listen have failed; it holds no       *)
(* listener once it has returned; every call returns.                      *)
(***************************************************************************)
\* The calls of net.Listen made so far by the current call of randomPort.
Attempts == rpI + (IF rpListener # 0 THEN 1 ELSE 0)

\* C9: the bound on the calls of Listen, the retry after a failure, the
\* return at the first success, the error exactly after ten failures, and
\* the termination of every call.
C9_TenTries ==
    /\ (pc \in RpPcs) ~> (pc \notin RpPcs)
    /\ [](/\ Attempts <= 10
          /\ pc \notin RpPcs => rpListener = 0 /\ rpI = 0)
    /\ [][(rpI' = rpI + 1 /\ rpI' < 10) => pc' = pc /\ rpListener' = 0]_vars
    /\ [][rpListener # 0
            => \/ UNCHANGED <<pc, rpI, rpListener>>
               \/ /\ RandomPortReturn
                  /\ pc' # "failed"
                  /\ ReturnedTo(pc, o') = Itoa(rpListener)
                  /\ rpListener \notin bound']_vars
    /\ [][RandomPortReturn
            => (pc' = "failed" <=> (rpI = 10 /\ rpListener = 0))]_vars

\* All ten tries of the allocation of the remote port have failed.
C9_Witness ==
    /\ pc = "failed"
    /\ err = "failed to find available remote port"
    /\ o.remotePort = ""

(***************************************************************************)
(* C10.  For a gcp: host whose gcloud output has at least two tokens, the  *)
(* address parseHost returns is the text after the last '@' of the last    *)
(* token (the whole token without '@'), trimmed, and the flags are the     *)
(* tokens between the first and the last joined by single spaces.          *)
(***************************************************************************)
AfterLastAt(tok) == SubSeq(tok, LastIndex(tok, "@") + 1, Len(tok))

C10_Case ==
    /\ HasPrefix(TrimSpace(input.host), "gcp:")
    /\ ~input.gc.err
    /\ Len(Split(input.gc.out, " ")) >= 2

\* parseHost has returned without error.
Resolved == pc # "parseHost" /\ err # "failed to parse host IP"

\* C10: once parseHost has returned without error in the case, host and
\* the flags are the ones the claim names.
C10_AddressAfterLastAt ==
    (C10_Case /\ Resolved) =>
        LET toks == Split(input.gc.out, " ")
            n    == Len(toks)
        IN  /\ host = TrimSpace(AfterLastAt(toks[n]))
            /\ o.sshFlags =
                 JoinFlags(Join(SubSeq(toks, 2, n - 1), " "), input.o.sshFlags)

(***************************************************************************)
(* C11.  What parseBindAddr is given, read as the claim reads it: the      *)
(* empty string stands for ":".                                            *)
(***************************************************************************)
C11_Given ==
    SplitHostPort(IF input.o.bindAddr = "" THEN ":" ELSE input.o.bindAddr)

\* parseBindAddr was called and has returned.
BindAddrReturned ==
    /\ pc \notin {"parseHost", "parseBindAddr", "bindRandomPort"}
    /\ err # "failed to parse host IP"

BindAddrFailed == pc = "failed" /\ err = "failed to parse bind address"

C11_Returned ==
    BindAddrReturned =>
        LET out == SplitHostPort(o.bindAddr)
        IN  IF C11_Given.err
            THEN BindAddrFailed /\ o.bindAddr = ""
            ELSE \/ /\ BindAddrFailed
                    /\ o.bindAddr = ""
                    /\ C11_Given.port = ""
                 \/ /\ ~BindAddrFailed
                    /\ ~out.err
                    /\ out.host # ""
                    /\ out.port # ""
                    /\ out.host = IF C11_Given.host = "" THEN "127.0.0.1"
                                  ELSE C11_Given.host
                    /\ C11_Given.port # "" => out.port = C11_Given.port
                    /\ C11_Given.port = "" => \E p \in Ports : out.port = Itoa(p)

\* The step at which parseBindAddr returns.
C11_Return ==
    /\ pc \in {"parseBindAddr", "bindRandomPort"}
    /\ pc' \notin {"parseBindAddr", "bindRandomPort"}

C11_Step ==
    C11_Return =>
        \* an error only for a string that is not host:port or when
        \* randomPort found no port
        /\ BindAddrFailed' <=>
              (C11_Given.err \/ (pc = "bindRandomPort" /\ rpListener = 0))
        \* the empty port becomes the port randomPort was listening on
        /\ (~BindAddrFailed' /\ C11_Given.port = "") =>
              /\ pc = "bindRandomPort"
              /\ rpListener \in Ports
              /\ SplitHostPort(o'.bindAddr).port = Itoa(rpListener)

\* C11: for a valid host:port (the empty string read as ":") parseBindAddr
\* returns a host:port with both parts non-empty, keeping a given host and
\* a given port, putting 127.0.0.1 for an empty host and a port of
\* randomPort for an empty port; a string that is not host:port, or a
\* failed randomPort, gives an error and the empty address.
C11_ParseBindAddr == []C11_Returned /\ [][C11_Step]_vars

C11_Witness ==
    /\ input.o.bindAddr = ""
    /\ pc = "bootstrap"
    /\ SplitHostPort(o.bindAddr).host = "127.0.0.1"
    /\ SplitHostPort(o.bindAddr).port = Itoa(maxPort)

(***************************************************************************)
(* C12.                                                                    *)
(***************************************************************************)
\* sshCode has come to its first external command, the bootstrap.
FromBootstrap ==
    pc = "bootstrap" \/ \E i \in 1..Len(log) : log[i] = EvBootstrap

CallsOf(fns) == {i \in 1..Len(cmds) : cmds[i].fn \in fns}

C12_Resolved ==
    FromBootstrap =>
        LET b == SplitHostPort(o.bindAddr)
        IN  /\ ~b.err /\ b.host # "" /\ b.port # ""
            /\ o.remotePort # ""
            /\ input.o.remotePort # "" => o.remotePort = input.o.remotePort
            /\ input.o.remotePort = "" =>
                  \E p \in Ports : o.remotePort = Itoa(p)
            /\ \A i \in CallsOf({"startTunnel"}) :
                  /\ cmds[i].bind = o.bindAddr
                  /\ cmds[i].rport = o.remotePort
                  /\ \A j \in CallsOf({"probe", "openBrowser"}) :
                        cmds[j].url = "http://" \o cmds[i].bind

C12_Step ==
    \* nothing is assigned from the bootstrap on
    /\ FromBootstrap =>
          o'.bindAddr = o.bindAddr /\ o'.remotePort = o.remotePort
    \* the remote port is assigned only by the return of the randomPort
    \* call of line 50, made only when no port was given
    /\ o'.remotePort # o.remotePort =>
          /\ pc = "remoteRandomPort" /\ pc' = "bootstrap"
          /\ input.o.remotePort = "" /\ o.remotePort = ""
          /\ rpListener \in Ports /\ o'.remotePort = Itoa(rpListener)
    \* that call is made once: line 50 is entered from line 49 only, and
    \* line 49 is not come back to
    /\ (pc' = "remoteRandomPort" /\ pc # "remoteRandomPort") =>
          pc = "remotePort" /\ input.o.remotePort = ""
    /\ (pc' = "remotePort" /\ pc # "remotePort") =>
          pc \in {"parseBindAddr", "bindRandomPort"}
    /\ pc = "remoteRandomPort" =>
          pc' \in {"remoteRandomPort", "bootstrap", "failed"}

\* C12: from the bootstrap on the bind address has a host and a port and
\* the remote port is set; a given remote port is kept, a missing one is
\* set by one call of randomPort; neither changes after the bootstrap, and
\* the tunnel and the probe are given the same bind address.
C12_PortsResolvedOnce == []C12_Resolved /\ [][C12_Step]_vars

C12_Witness ==
    /\ input.o.remotePort = ""
    /\ input.o.bindAddr = ""
    /\ o.remotePort = Itoa(minPort)
    /\ CallsOf({"startTunnel"}) # {}
    /\ CallsOf({"probe"}) # {}
    /\ pc = "done"

(***************************************************************************)
(* C13.                                                                    *)
(***************************************************************************)
\* C13: when a session that started a tunnel is Done, the ssh child process
\* has terminated.
C13_TunnelTerminatedAtDone ==
    (pc = "done" /\ tunnel # "none") => tunnel = "exited"

(***************************************************************************)
(* C14.                                                                    *)
(***************************************************************************)
C14_State ==
    /\ leaves <= 1
    /\ observed = "TunnelEnded" => tunnel = "exited" /\ waiter = "done" /\ ctxDone
    /\ waiter = "done" => ctxDone /\ tunnel = "exited"

C14_Step ==
    \* the notification is given once, by the goroutine, after the exit
    /\ (ctxDone' /\ ~ctxDone) =>
          waiter = "waiting" /\ waiter' = "done" /\ tunnel = "exited"
    /\ waiter = "done" => waiter' = "done" /\ ctxDone'
    \* Running is left by TunnelEnded unless an interrupt was delivered
    /\ (State(pc) = "Running" /\ State(pc') # "Running") =>
          /\ observed = "none"
          /\ observed' \in {"TunnelEnded", "UserInterrupted"}
          /\ interrupts = 0 => observed' = "TunnelEnded"

\* C14: the exit of the ssh child is notified at most once, whenever the
\* child ended after its start, also before Running: with the child ended,
\* a controller in Running leaves Running, by TunnelEnded unless an
\* interrupt won.
C14_ExitNotifiedOnce ==
    /\ []C14_State
    /\ [][C14_Step]_vars
    /\ (State(pc) = "Running" /\ tunnel = "exited") ~> (State(pc) # "Running")

C14_Witness ==
    /\ observed = "TunnelEnded"
    /\ interrupts = 0
    /\ tunnel = "exited"
    /\ waiter = "done"
    /\ State(pc) = "Done"

(***************************************************************************)
(* C15.                                                                    *)
(***************************************************************************)
StageFns ==
    {"parseGCPSSHCmd", "bootstrap", "syncUserSettings", "syncExtensions",
     "startTunnel"}

IsBack(c) == c.fn \in {"syncUserSettings", "syncExtensions"} /\ c.back

\* The error sshCode returns when the call c failed.
ErrorOf(c) ==
    CASE c.fn = "parseGCPSSHCmd" -> "failed to parse host IP"
      [] c.fn = "bootstrap" -> "failed to update code-server"
      [] c.fn = "syncUserSettings" /\ ~c.back -> "failed to sync settings"
      [] c.fn = "syncExtensions" /\ ~c.back -> "failed to sync extensions"
      [] c.fn = "startTunnel" -> "failed to start code-server"
      [] c.fn = "syncExtensions" /\ c.back -> "failed to sync extensions back"
      [] c.fn = "syncUserSettings" /\ c.back ->
            "failed to sync user settings settings back"

Logged(e) == \E i \in 1..Len(log) : log[i] = e

C15_State ==
    \* each stage action is invoked at most once
    /\ \A i, j \in CallsOf(StageFns) :
          (cmds[i].fn = cmds[j].fn /\ IsBack(cmds[i]) = IsBack(cmds[j])) => i = j
    /\ \A i, j \in 1..Len(log) : log[i] = log[j] => i = j
    \* a failed stage action is the last call, and the session is Failed
    /\ \A i \in CallsOf(StageFns) :
          ~cmds[i].ok =>
              /\ i = Len(cmds)
              /\ pc = "failed"
              /\ err = ErrorOf(cmds[i])
    /\ (pc = "failed" /\ err = "failed to sync settings") =>
          /\ ~Logged(EvPushExtensions)
          /\ ~Logged(EvStartTunnel)
          /\ tunnel = "none"
    /\ (pc = "failed" /\ err = "failed to sync extensions back") =>
          ~Logged(EvPullSettings)

\* C15: each stage action (gcloud helper, bootstrap, the two pushes, the
\* tunnel start, the two pulls) is invoked at most once; after one fails
\* nothing more is invoked and the session is Failed, where it stays: after
\* a failed push of the settings no extensions are pushed and no tunnel is
\* started, after a failed pull of the extensions no settings are pulled.
C15_FailureIsFatal == []C15_State /\ [][pc # "failed"]_vars

C15_Witness ==
    /\ pc = "failed"
    /\ err = "failed to sync settings"
    /\ \E i \in CallsOf({"syncUserSettings"}) : ~cmds[i].ok
    /\ \E i \in CallsOf({"bootstrap"}) : cmds[i].ok

(***************************************************************************)
(* C16.                                                                    *)
(***************************************************************************)
\* The functions that connect to the host.
HostFns == {"bootstrap", "syncUserSettings", "syncExtensions", "startTunnel"}

\* The resolver's extra flags, a space, the user's flags.
C16_Flags(extra, user) == IF extra = "" THEN user ELSE extra \o " " \o user

C16_State ==
    \* resolved once, before anything else
    /\ \A i \in 1..Len(log) : log[i] = EvResolve <=> i = 1
    /\ \A i \in CallsOf({"parseGCPSSHCmd"}) : i = 1
    /\ pc # "parseHost" => Len(log) >= 1
    \* every command is given the address and the flags that sshCode holds
    /\ \A i \in CallsOf(HostFns) :
          cmds[i].host = host /\ cmds[i].flags = o.sshFlags

C16_Step ==
    \* which are the resolver's answer, with its flags before the user's
    /\ pc = "parseHost" =>
          LET answer == parseHost(input.host, input.gc)
          IN  IF answer.err THEN pc' \in {"parseHost", "failed"}
              ELSE pc' # "parseHost" =>
                      /\ host' = answer.host
                      /\ o'.sshFlags = C16_Flags(answer.flags, input.o.sshFlags)
    \* and do not change afterwards
    /\ pc # "parseHost" => host' = host /\ o'.sshFlags = o.sshFlags

\* C16: the host is resolved once, before every other stage; the bootstrap,
\* each push, the tunnel start and each pull are given the same address
\* and the same flags (the resolver's before the user's), and no stage
\* changes them.
C16_ResolvedOnceUsedByAll == []C16_State /\ [][C16_Step]_vars

C16_Witness ==
    /\ input.gc.out = "/usr/bin/ssh -i key.pem user@10.0.0.5"
    /\ pc = "done"
    /\ Logged(EvPushSettings)
    /\ Logged(EvPullSettings)
    /\ \A i \in CallsOf(HostFns) :
          cmds[i].host = "10.0.0.5" /\ cmds[i].flags = "-i key.pem -p 2222"

(***************************************************************************)
(* C17.                                                                    *)
(***************************************************************************)
\* The errors with which sshCode returns before the probe has succeeded.
EarlyErrors ==
    {"failed to parse host IP", "failed to parse bind address",
     "failed to find available remote port", "failed to update code-server",
     "failed to sync settings", "failed to sync extensions",
     "failed to start code-server", "code-server didn't start in time"}

C17_State ==
    /\ Cardinality({i \in 1..Len(log) : log[i] = EvOpen}) <= 1
    /\ Cardinality(CallsOf({"openBrowser"})) <= 1
    /\ Logged(EvOpen) <=> CallsOf({"openBrowser"}) # {}
    /\ Logged(EvOpen) =>
          /\ ~input.o.noOpen
          /\ Logged(EvProbe)
          /\ State(pc) \notin {"Resolving", "Bootstrapping", "SyncingIn",
                                "TunnelStarting", "Probing"}
          /\ \A i, j \in 1..Len(log) :
                (log[i] = EvOpen /\ log[j] = EvRun) => i < j
    /\ (pc = "failed" /\ err \in EarlyErrors) => ~Logged(EvOpen)
    /\ (State(pc) = "Running" /\ ~input.o.noOpen) => Logged(EvOpen)

C17_Step ==
    (Logged(EvOpen)' /\ ~Logged(EvOpen)) =>
        /\ pc = "probed"
        /\ State(pc') = "Running"
        /\ ~o.noOpen
        /\ waiter = "none"
        /\ ~registered
        /\ observed = "none"

\* C17: the browser is opened at most once, only after the probe got a
\* response and before sshCode waits for the end of the tunnel or an
\* interrupt, and never with noOpen; a session that fails before the probe
\* succeeded opens no browser.
C17_BrowserOnceAfterProbe == []C17_State /\ [][C17_Step]_vars

C17_Witness ==
    /\ Logged(EvOpen)
    /\ pc = "parked"
    /\ ~input.o.noOpen

(***************************************************************************)
(* C18.                                                                    *)
(***************************************************************************)
C18_State ==
    State(pc) = "Probing" =>
        /\ observed = "none"
        /\ leaves = 0
        /\ waiter = "none"
        /\ ~registered

C18_Step ==
    State(pc) = "Probing" =>
        \* the end of the child moves nothing of sshCode
        /\ tunnel' # tunnel =>
              UNCHANGED <<pc, err, log, cmds, o, host, timeVars, selVars,
                          waiter, ctxDone>>
        \* Probing is left to Running, after a response, or to Failed,
        \* after the deadline
        /\ State(pc') \in {"Probing", "Running", "Failed"}
        /\ State(pc') = "Running" => pc = "probed"
        /\ (pc' = "probed" /\ pc # "probed") =>
              pc = "probeGet" /\ elapsed - attemptStart < AttemptTimeout
        /\ State(pc') = "Failed" =>
              /\ err' = "code-server didn't start in time"
              /\ pc = "probeCheck"
              /\ elapsed >= ProbeDeadline

\* C18: while sshCode is Probing the end of the ssh child causes no
\* transition; Probing is left only by a response (to Running) or, the
\* deadline passed, to Failed with the timeout error, never to SyncingBack
\* or Done; and Probing is always left.
C18_ProbingIgnoresExit ==
    /\ []C18_State
    /\ [][C18_Step]_vars
    /\ (State(pc) = "Probing") ~> (State(pc) # "Probing")

C18_Witness ==
    /\ pc = "failed"
    /\ err = "code-server didn't start in time"
    /\ tunnel = "exited"
    /\ elapsed >= ProbeDeadline

(***************************************************************************)
(* C19.                                                                    *)
(***************************************************************************)
\* C19: with every external command returning and time advancing, a
\* session comes to Running or to a terminal state; in Running, once the
\* tunnel has ended or an interrupt was delivered, it comes to a terminal
\* state; and in a terminal state nothing more happens.
C19_Terminates ==
    /\ [][pc \notin Terminal]_vars
    /\ (State(pc) # "Running") ~> (State(pc) = "Running" \/ pc \in Terminal)
    /\ (State(pc) = "Running" /\ (tunnel = "exited" \/ interrupts > 0))
          ~> (pc \in Terminal)

====
